---------------------------- MODULE Spec2Model ----------------------------
(***************************************************************************)
(* A model of src/sudoku/sudoku.py: the Sudoku class (board, solution,     *)
(* original_puzzle), its three backtracking searches (_fill_board,         *)
(* _count_solutions, solve), the validity predicate, puzzle generation and *)
(* the play loop.                                                          *)
(*                                                                         *)
(* Python lists are objects: two names may denote the same list.  The      *)
(* model keeps the lists in a heap and the fields of the Sudoku object as  *)
(* references into it, so that a copy and an alias are different things.   *)
(*                                                                         *)
(* The three searches are recursive in the source.  Here each is a machine *)
(* with an explicit call stack whose step is one call or one return of the *)
(* recursive method; a search runs its machine until the outermost call    *)
(* has returned.                                                           *)
(***************************************************************************)
EXTENDS Integers, Sequences, FiniteSets, TLC

(* Sudoku.__init__(size=9): the default size, the one play() is run with *)
DefaultSize == 9

(* the sizes a Sudoku object is constructed with here: the default, and    *)
(* the smallest other perfect square with boxes of more than one cell      *)
Sizes == {4, DefaultSize}

VARIABLE size       \* self.size

(* Python's None, where the other values are strings *)
None == "None"

(* None where the other values are coordinates or lists *)
Nil == <<>>

(* None where the other values are references to lists *)
NoRef == 0

(* no call of the engine from outside the game *)
NoCall == [op |-> "none"]

Idx == 0..(size - 1)
Values == 1..size

(* [[0 for _ in range(size)] for _ in range(size)] *)
EmptyBoard == [r \in Idx |-> [c \in Idx |-> 0]]

(* range(1, self.size + 1) as a list *)
Range1 == [k \in 1..size |-> k]

(***************************************************************************)
(* The validity predicate and the scan for the next empty cell.            *)
(***************************************************************************)

(* board[row][c] == value and c != col, or board[r][col] == value and       *)
(* r != row: the value found by the row loop or the column loop            *)
RowOrColumnHit(board, row, col, value) ==
  \/ \E c \in Idx : board[row][c] = value /\ c # col
  \/ \E r \in Idx : board[r][col] = value /\ r # row

(* the 3 by 3 block the box loops scan, whatever self.size, leaves the     *)
(* lists: a scan that no hit ends reads board[r][c] outside them and       *)
(* raises IndexError                                                       *)
BoxLeavesBoard(row, col) ==
  \/ (row - (row % 3)) + 3 > size
  \/ (col - (col % 3)) + 3 > size

(* the box loops return False: a hit in a cell they read before any cell   *)
(* outside the lists.  The loops read row by row, so when the block is too *)
(* wide only its first row is read, up to the last column of the board.    *)
BoxHit(board, row, col, value) ==
  LET box_row_start == row - (row % 3)
      box_col_start == col - (col % 3)
  IN \E r \in box_row_start..(box_row_start + 2),
        c \in box_col_start..(box_col_start + 2) :
          /\ r < size /\ c < size
          /\ box_col_start + 3 <= size \/ r = box_row_start
          /\ board[r][c] = value /\ <<r, c>> # <<row, col>>

(* is_valid returns False *)
is_valid_rejects(board, row, col, value) ==
  \/ RowOrColumnHit(board, row, col, value)
  \/ BoxHit(board, row, col, value)

(* is_valid raises IndexError *)
is_valid_raises(board, row, col, value) ==
  /\ BoxLeavesBoard(row, col)
  /\ ~ is_valid_rejects(board, row, col, value)

(* is_valid returns True: all three loops end without a hit *)
is_valid(board, row, col, value) ==
  /\ ~ BoxLeavesBoard(row, col)
  /\ ~ is_valid_rejects(board, row, col, value)

(* The first cell holding 0 in row-major order, or None. *)
find_empty_cell(board) ==
  LET rows == {r \in Idx : \E c \in Idx : board[r][c] = 0}
  IN IF rows = {} THEN Nil
     ELSE LET row == CHOOSE r \in rows : \A r2 \in rows : r <= r2
              cols == {c \in Idx : board[row][c] = 0}
              col == CHOOSE c \in cols : \A c2 \in cols : c <= c2
          IN <<row, col>>

(***************************************************************************)
(* random.shuffle.  The process-wide generator is a state rng; a shuffle   *)
(* permutes its list as the state dictates and advances the state.  The    *)
(* outcomes are a small family of the permutations the library can draw:   *)
(* rotations and reversed rotations of the candidates, arithmetic          *)
(* progressions through the coordinate list.                               *)
(***************************************************************************)
Strides == <<80, 53>>

NextRng(rng) == (rng + 1) % 7

Reverse(s) == [k \in 1..Len(s) |-> s[Len(s) + 1 - k]]

Rotate(s, n) == [k \in 1..Len(s) |-> s[((k - 1 + n) % Len(s)) + 1]]

(* shuffle of the candidate list of _fill_board *)
ShuffleNums(nums, rng) ==
  IF (rng \div size) % 2 = 1 THEN Reverse(Rotate(nums, rng % size))
  ELSE Rotate(nums, rng % size)

(* shuffle of the coordinate list of generate_puzzle *)
ShuffleCells(cs, rng) ==
  LET a == Strides[(rng % Len(Strides)) + 1]
  IN [k \in 1..Len(cs) |-> cs[((a * (k - 1) + rng) % Len(cs)) + 1]]

(***************************************************************************)
(* The search machines.  A machine state holds the list being searched     *)
(* (board), the frames of the calls in progress (stack: the cell, the      *)
(* candidate list, the index of the candidate placed, the running count),  *)
(* the value being returned (ret) and the generator state.  phase is       *)
(* "call" when a recursive call is about to run its body, "ret" when a     *)
(* call has returned into the frame on top of the stack, "done" when the   *)
(* outermost call has returned, "raised" when is_valid has raised          *)
(* IndexError, which no method of the search catches.                      *)
(***************************************************************************)

Machine(board, rng, ret0) ==
  [phase |-> "call", board |-> board, stack |-> <<>>, ret |-> ret0, rng |-> rng]

Top(m) == m.stack[Len(m.stack)]

Pop(m) == SubSeq(m.stack, 1, Len(m.stack) - 1)

(* return v from the call whose callers are the frames of stack *)
ReturnValue(m, stack, v) ==
  [m EXCEPT !.stack = stack, !.ret = v,
            !.phase = IF stack = <<>> THEN "done" ELSE "ret"]

(* for num in nums: if self.is_valid(board, row, col, num): the index of   *)
(* the next candidate after i that is_valid does not reject (it accepts   *)
(* it or raises on it), or 0 when the loop runs out.                       *)
NextCandidate(board, f) ==
  LET J == {j \in (f.i + 1)..Len(f.nums) :
              ~ is_valid_rejects(board, f.row, f.col, f.nums[j])}
  IN IF J = {} THEN 0 ELSE CHOOSE j \in J : \A k \in J : j <= k

(* board[row][col] = num, then the recursive call; or, the loop over, the  *)
(* method's final return of exhausted.                                     *)
Advance(m, f, exhausted) ==
  LET j == NextCandidate(m.board, f)
  IN IF j = 0 THEN ReturnValue(m, Pop(m), exhausted)
     ELSE IF BoxLeavesBoard(f.row, f.col)
     THEN [m EXCEPT !.phase = "raised"]
     ELSE [m EXCEPT !.board[f.row][f.col] = f.nums[j],
                    !.stack[Len(m.stack)] = [f EXCEPT !.i = j],
                    !.phase = "call"]

Frame(cell, nums) ==
  [row |-> cell[1], col |-> cell[2], nums |-> nums, i |-> 0, count |-> 0]

Enter(m, cell, nums, exhausted) ==
  LET f == Frame(cell, nums)
      m1 == [m EXCEPT !.stack = Append(m.stack, f)]
  IN Advance(m1, f, exhausted)

(* _fill_board: one call or one return *)
fill_board_step(m) ==
  IF m.phase = "call"
  THEN LET empty_cell == find_empty_cell(m.board)
       IN IF empty_cell = Nil THEN ReturnValue(m, m.stack, TRUE)
          ELSE Enter([m EXCEPT !.rng = NextRng(m.rng)], empty_cell,
                     ShuffleNums(Range1, m.rng), FALSE)
  ELSE LET f == Top(m)
       IN IF m.ret THEN ReturnValue(m, Pop(m), TRUE)
          ELSE Advance([m EXCEPT !.board[f.row][f.col] = 0], f, FALSE)

(* solve: one call or one return *)
solve_step(m) ==
  IF m.phase = "call"
  THEN LET empty_cell == find_empty_cell(m.board)
       IN IF empty_cell = Nil THEN ReturnValue(m, m.stack, TRUE)
          ELSE Enter(m, empty_cell, Range1, FALSE)
  ELSE LET f == Top(m)
       IN IF m.ret THEN ReturnValue(m, Pop(m), TRUE)
          ELSE Advance([m EXCEPT !.board[f.row][f.col] = 0], f, FALSE)

(* _count_solutions: one call or one return *)
count_solutions_step(m) ==
  IF m.phase = "call"
  THEN LET empty_cell == find_empty_cell(m.board)
       IN IF empty_cell = Nil THEN ReturnValue(m, m.stack, 1)
          ELSE Enter(m, empty_cell, Range1, 0)
  ELSE LET f == Top(m)
           count == f.count + m.ret
           m1 == [m EXCEPT !.board[f.row][f.col] = 0]
       IN IF count > 1 THEN ReturnValue(m1, Pop(m), count)
          ELSE Advance(m1, [f EXCEPT !.count = count], count)

Step(mode, m) ==
  CASE mode = "fill" -> fill_board_step(m)
    [] mode = "solve" -> solve_step(m)
    [] mode = "count" -> count_solutions_step(m)

(* Run the machine until the outermost call has returned or the exception  *)
(* has left it: at most 2^RunDepth steps.                                  *)
RunDepth == 20

RECURSIVE Run(_, _, _)
Run(mode, m, depth) ==
  IF m.phase \in {"done", "raised"} THEN m
  ELSE IF depth = 0 THEN Step(mode, m)
  ELSE Run(mode, Run(mode, m, depth - 1), depth - 1)

(***************************************************************************)
(* The heap of board lists and the Sudoku object.                          *)
(***************************************************************************)
VARIABLES
  heap,             \* the board lists alive, by reference
  board,            \* self.board: a reference
  solution,         \* self.solution: a reference or None
  original_puzzle,  \* self.original_puzzle: a reference or None
  rng,              \* the state of the random module's generator
  pc,               \* where the program is
  games,            \* calls of generate_puzzle made by play so far
  difficulty,       \* generate_puzzle's argument
  squares_to_remove, cells, pos, removed_count, temp, solutions,
                    \* generate_puzzle's locals; pos counts the coordinates tried
  filled,           \* what _fill_board returned to generate_board
  call              \* a call of the engine from outside the game, and its result

vars == <<size, heap, board, solution, original_puzzle, rng, pc, games, difficulty,
          squares_to_remove, cells, pos, removed_count, temp, solutions,
          filled, call>>

gen_locals == <<difficulty, squares_to_remove, cells, pos, removed_count, temp,
                solutions, filled>>

Refs == {1, 2, 3, 4}

NoHeap == [r \in Refs |-> Nil]

(* the lists reachable from the object *)
Live == {board, solution, original_puzzle} \ {NoRef}

Collect(h, live) == [r \in Refs |-> IF r \in live THEN h[r] ELSE Nil]

Alloc(h) == CHOOSE r \in Refs : h[r] = Nil /\ \A q \in Refs : h[q] = Nil => r <= q

(* [row[:] for row in src]: a new list with the same cells *)
CopyBoard(h, src) ==
  LET r == Alloc(h) IN [heap |-> [h EXCEPT ![r] = h[src]], ref |-> r]

Finished(m) == m.phase \in {"done", "raised"}

Raised(m) == m.phase = "raised"

(* solve(board=None): board = self.board, searched in place *)
solve(h, b) ==
  LET m == Run("solve", Machine(h[b], 0, FALSE), RunDepth)
  IN [ok |-> m.ret, done |-> Finished(m), raised |-> Raised(m),
      heap |-> [h EXCEPT ![b] = m.board]]

(* A uniqueness check run through the in-place solver: a plausible slip. *)
count_solutions_inplace(h, b, live) ==
  LET s == solve(h, b)
  IN [count |-> IF s.ok THEN 1 ELSE 0, done |-> s.done, raised |-> s.raised,
      heap |-> s.heap]

(* _count_solutions(board=None): the search runs on a copy of self.board,  *)
(* which is garbage once the call has returned.                            *)
count_solutions(h, b, live) ==
  LET cp == CopyBoard(h, b)
      m == Run("count", Machine(cp.heap[cp.ref], 0, 0), RunDepth)
  IN [count |-> m.ret, done |-> Finished(m), raised |-> Raised(m),
      heap |-> Collect([cp.heap EXCEPT ![cp.ref] = m.board], live)]

(* _fill_board(board) on the list b *)
fill_board(h, b, r) ==
  LET m == Run("fill", Machine(h[b], r, FALSE), RunDepth)
  IN [ok |-> m.ret, done |-> Finished(m), raised |-> Raised(m), rng |-> m.rng,
      heap |-> [h EXCEPT ![b] = m.board]]

(***************************************************************************)
(* The program: play(), generate_puzzle() and the game loop.               *)
(***************************************************************************)

(* the games one run of play() may start: the first and the new games *)
MaxGames == 2

(* what the player may type at the difficulty prompt *)
DifficultyInputs == {"easy", "medium", "hard", "HARD", "expert"}

(* str.lower() on those inputs *)
Lower(s) == IF s = "HARD" THEN "hard" ELSE s

(* [(r, c) for r in range(self.size) for c in range(self.size)] *)
AllCells == [k \in 1..(size * size) |-> <<(k - 1) \div size, (k - 1) % size>>]

NoLocals ==
  /\ difficulty = None /\ squares_to_remove = 0 /\ cells = <<>> /\ pos = 0
  /\ removed_count = 0 /\ temp = 0 /\ solutions = 0 /\ filled = FALSE

(* game = Sudoku(): __init__ *)
Init ==
  /\ size \in Sizes
  /\ heap = [NoHeap EXCEPT ![1] = EmptyBoard]
  /\ board = 1 /\ solution = NoRef /\ original_puzzle = NoRef
  /\ rng = 0
  /\ pc = "start" /\ games = 0
  /\ NoLocals
  /\ call = NoCall

(* generate_board(), its first statement: self.board bound to a new list   *)
(* of empty rows; the list it was bound to is garbage from then on         *)
NewBoard(h) ==
  LET h0 == Collect(h, {solution, original_puzzle} \ {NoRef})
      b == Alloc(h0)
  IN [heap |-> [h0 EXCEPT ![b] = EmptyBoard], ref |-> b]

(* play(): the difficulty prompt, the call of generate_puzzle and of       *)
(* generate_board, up to the new empty board                               *)
Start(d) ==
  /\ pc = "start"
  /\ difficulty' = Lower(d)
  /\ games' = 1
  /\ LET nb == NewBoard(heap)
     IN heap' = nb.heap /\ board' = nb.ref
  /\ pc' = "generate_board"
  /\ UNCHANGED <<size, solution, original_puzzle, rng, squares_to_remove,
                 cells, pos, removed_count, temp, solutions, filled, call>>

(* generate_board(), the rest: the board filled, and copied as the         *)
(* solution; an IndexError out of _fill_board ends the program             *)
GenerateBoard ==
  /\ pc = "generate_board"
  /\ LET f == fill_board(heap, board, rng)
         cp == CopyBoard(Collect(f.heap, {board, original_puzzle} \ {NoRef}), board)
     IN /\ f.done
        /\ rng' = f.rng
        /\ IF f.raised
           THEN /\ solution' = solution
                /\ heap' = f.heap
                /\ filled' = FALSE
                /\ pc' = "crashed"
           ELSE /\ solution' = cp.ref
                /\ heap' = cp.heap
                /\ filled' = f.ok
                /\ pc' = "setup"
  /\ UNCHANGED <<size, board, original_puzzle, games, difficulty, squares_to_remove, cells,
                 pos, removed_count, temp, solutions, call>>

(* squares_to_remove with the loop's test turned from >= into >: a slip. *)
TargetReachedLate(removed, target) == removed > target

(* if removed_count >= squares_to_remove: break *)
TargetReached(removed, target) == removed >= target

(* generate_puzzle(): the difficulty table, the shuffled coordinates *)
Setup ==
  /\ pc = "setup"
  /\ squares_to_remove' = IF difficulty = "easy" THEN 40
                          ELSE IF difficulty = "medium" THEN 50
                          ELSE IF difficulty = "hard" THEN 60
                          ELSE 40
  /\ cells' = ShuffleCells(AllCells, rng)
  /\ rng' = NextRng(rng)
  /\ removed_count' = 0
  /\ pos' = 0
  /\ pc' = "remove"
  /\ UNCHANGED <<size, heap, board, solution, original_puzzle, games, difficulty,
                 temp, solutions, filled, call>>

(* the next coordinate: temp = self.board[r][c]; self.board[r][c] = 0 *)
TryCell ==
  /\ pc = "remove"
  /\ pos < Len(cells)
  /\ ~ TargetReached(removed_count, squares_to_remove)
  /\ LET rc == cells[pos + 1]
     IN /\ temp' = heap[board][rc[1]][rc[2]]
        /\ heap' = [heap EXCEPT ![board][rc[1]][rc[2]] = 0]
  /\ pos' = pos + 1
  /\ pc' = "count"
  /\ UNCHANGED <<size, board, solution, original_puzzle, rng, games, difficulty,
                 squares_to_remove, cells, removed_count, solutions, filled, call>>

(* solutions = self._count_solutions(); an IndexError out of it ends the   *)
(* program                                                                 *)
Count ==
  /\ pc = "count"
  /\ LET res == count_solutions(heap, board, Live)
     IN /\ res.done
        /\ heap' = res.heap
        /\ IF res.raised
           THEN solutions' = solutions /\ pc' = "crashed"
           ELSE solutions' = res.count /\ pc' = "decide"
  /\ UNCHANGED <<size, board, solution, original_puzzle, rng, games, difficulty,
                 squares_to_remove, cells, pos, removed_count, temp, filled, call>>

(* Decide restoring the cell only when no completion is left: a slip that  *)
(* keeps removals which leave several completions.                         *)
DecideKeepsAmbiguous ==
  /\ pc = "decide"
  /\ LET rc == cells[pos]
     IN IF solutions = 0
        THEN /\ heap' = [heap EXCEPT ![board][rc[1]][rc[2]] = temp]
             /\ removed_count' = removed_count
        ELSE /\ heap' = heap
             /\ removed_count' = removed_count + 1
  /\ pc' = "remove"
  /\ UNCHANGED <<size, board, solution, original_puzzle, rng, games, difficulty,
                 squares_to_remove, cells, pos, temp, solutions, filled, call>>

(* if solutions != 1: self.board[r][c] = temp; else: removed_count += 1 *)
Decide ==
  /\ pc = "decide"
  /\ LET rc == cells[pos]
     IN IF solutions # 1
        THEN /\ heap' = [heap EXCEPT ![board][rc[1]][rc[2]] = temp]
             /\ removed_count' = removed_count
        ELSE /\ heap' = heap
             /\ removed_count' = removed_count + 1
  /\ pc' = "remove"
  /\ UNCHANGED <<size, board, solution, original_puzzle, rng, games, difficulty,
                 squares_to_remove, cells, pos, temp, solutions, filled, call>>

(* the loop over, by break or by exhaustion: the copy kept as              *)
(* original_puzzle, and the return                                         *)
Finish ==
  /\ pc = "remove"
  /\ pos = Len(cells) \/ TargetReached(removed_count, squares_to_remove)
  /\ LET cp == CopyBoard(Collect(heap, {board, solution}), board)
     IN /\ original_puzzle' = cp.ref
        /\ heap' = cp.heap
  /\ pc' = "generated"
  /\ UNCHANGED <<size, board, solution, rng, games, difficulty, squares_to_remove,
                 cells, pos, removed_count, temp, solutions, filled, call>>

(* if self.find_empty_cell(self.board) is None:                            *)
(*     if self.board == self.solution: break                               *)
EndOfTurn(h) ==
  IF find_empty_cell(h[board]) = Nil /\ h[board] = h[solution]
  THEN "won" ELSE "loop"

(* generate_puzzle returns into play(): before the loop for the first      *)
(* game, into the loop's closing test for a new game                       *)
Return ==
  /\ pc = "generated"
  /\ difficulty' = None /\ squares_to_remove' = 0 /\ cells' = <<>> /\ pos' = 0
  /\ removed_count' = 0 /\ temp' = 0 /\ solutions' = 0 /\ filled' = FALSE
  /\ pc' = IF games = 1 THEN "loop" ELSE EndOfTurn(heap)
  /\ UNCHANGED <<size, heap, board, solution, original_puzzle, rng, games, call>>

(* action == 'q' *)
Quit ==
  /\ pc = "loop"
  /\ pc' = "quit"
  /\ UNCHANGED <<size, heap, board, solution, original_puzzle, rng, games, gen_locals, call>>

(* action == 'n': the difficulty prompt and generate_puzzle, up to the new  *)
(* empty board                                                             *)
NewGame(d) ==
  /\ pc = "loop"
  /\ games < MaxGames
  /\ difficulty' = Lower(d)
  /\ games' = games + 1
  /\ LET nb == NewBoard(heap)
     IN heap' = nb.heap /\ board' = nb.ref
  /\ pc' = "generate_board"
  /\ UNCHANGED <<size, solution, original_puzzle, rng, squares_to_remove,
                 cells, pos, removed_count, temp, solutions, filled, call>>

(* action == 'c', or an action the loop does not know: a message at most,  *)
(* then the closing test                                                   *)
Check ==
  /\ pc = "loop"
  /\ pc' = EndOfTurn(heap)
  /\ UNCHANGED <<size, heap, board, solution, original_puzzle, rng, games, gen_locals, call>>

(* what int(input(...)) makes of a typed line: a number, or ValueError *)
Typed(n) == [numeric |-> TRUE, n |-> n]
Junk == [numeric |-> FALSE, n |-> 0]

(* The is_valid test left out of the move: a plausible slip. *)
MoveBoardUnchecked(h, row_in, col_in, val_in) ==
  IF ~ (row_in.numeric /\ col_in.numeric /\ val_in.numeric) THEN h
  ELSE LET row == row_in.n - 1
           col == col_in.n - 1
           val == val_in.n
       IN IF 0 <= row /\ row < size /\ 0 <= col /\ col < size /\ 1 <= val /\ val <= size
          THEN IF h[original_puzzle][row][col] # 0 THEN h
               ELSE [h EXCEPT ![board][row][col] = val]
          ELSE h

(* The locked-cell test left out of the move: a plausible slip. *)
MoveBoardUnlocked(h, row_in, col_in, val_in) ==
  IF ~ (row_in.numeric /\ col_in.numeric /\ val_in.numeric) THEN h
  ELSE LET row == row_in.n - 1
           col == col_in.n - 1
           val == val_in.n
       IN IF 0 <= row /\ row < size /\ 0 <= col /\ col < size /\ 1 <= val /\ val <= size
          THEN IF is_valid(h[board], row, col, val)
               THEN [h EXCEPT ![board][row][col] = val]
               ELSE h
          ELSE h

(* action == 'm': the heap after the move *)
MoveBoard(h, row_in, col_in, val_in) ==
  IF ~ (row_in.numeric /\ col_in.numeric /\ val_in.numeric) THEN h
  ELSE LET row == row_in.n - 1
           col == col_in.n - 1
           val == val_in.n
       IN IF 0 <= row /\ row < size /\ 0 <= col /\ col < size /\ 1 <= val /\ val <= size
          THEN IF h[original_puzzle][row][col] # 0 THEN h
               ELSE IF is_valid(h[board], row, col, val)
               THEN [h EXCEPT ![board][row][col] = val]
               ELSE h
          ELSE h

(* the move's call of is_valid raises IndexError, which the handler for    *)
(* ValueError does not catch                                               *)
MoveRaises(h, row_in, col_in, val_in) ==
  /\ row_in.numeric /\ col_in.numeric /\ val_in.numeric
  /\ LET row == row_in.n - 1
         col == col_in.n - 1
         val == val_in.n
     IN /\ 0 <= row /\ row < size /\ 0 <= col /\ col < size /\ 1 <= val /\ val <= size
        /\ h[original_puzzle][row][col] = 0
        /\ is_valid_raises(h[board], row, col, val)

MakeMove(row_in, col_in, val_in) ==
  /\ pc = "loop"
  /\ heap' = MoveBoard(heap, row_in, col_in, val_in)
  /\ pc' = IF MoveRaises(heap, row_in, col_in, val_in) THEN "crashed" ELSE EndOfTurn(heap')
  /\ UNCHANGED <<size, board, solution, original_puzzle, rng, games, gen_locals, call>>

(* The moves the modelled player types: lines that are no number or out of *)
(* range, and moves in the row of the first empty cell, on that cell or on *)
(* a cell already holding a value (a given, or an earlier entry that the   *)
(* move then overwrites).  Every valid board that extends the givens is    *)
(* reached by such moves, cell after cell in row-major order.              *)
BadLines ==
  {<<Junk, Typed(1), Typed(1)>>, <<Typed(1), Junk, Typed(1)>>, <<Typed(1), Typed(1), Junk>>,
   <<Typed(0), Typed(1), Typed(1)>>, <<Typed(size + 1), Typed(1), Typed(1)>>,
   <<Typed(1), Typed(0), Typed(1)>>, <<Typed(1), Typed(size + 1), Typed(1)>>,
   <<Typed(1), Typed(1), Typed(0)>>, <<Typed(1), Typed(1), Typed(size + 1)>>}

Targets(b) ==
  LET e == find_empty_cell(b)
  IN IF e = Nil THEN {}
     ELSE {<<e[1], c>> : c \in {c \in Idx : b[e[1]][c] # 0 \/ c = e[2]}}

MoveLines(b) ==
  BadLines \cup
  {<<Typed(t[1] + 1), Typed(t[2] + 1), Typed(v)>> : t \in Targets(b), v \in Values}

Next ==
  \/ \E d \in DifficultyInputs : Start(d)
  \/ GenerateBoard
  \/ Setup
  \/ TryCell
  \/ Count
  \/ Decide
  \/ Finish
  \/ Return
  \/ Quit
  \/ \E d \in DifficultyInputs : NewGame(d)
  \/ Check
  \/ \E l \in MoveLines(heap[board]) : MakeMove(l[1], l[2], l[3])

Spec == Init /\ [][Next]_vars

(***************************************************************************)
(* What the rules of Sudoku say, stated without the program's code.        *)
(***************************************************************************)

(* the side b of a box: b * b = N *)
BoxSide == CHOOSE b \in 1..size : b * b = size

RowUnits == {{<<r, c>> : c \in Idx} : r \in Idx}
ColUnits == {{<<r, c>> : r \in Idx} : c \in Idx}
BoxUnits ==
  {{<<r, c>> : r \in (br * BoxSide)..(br * BoxSide + BoxSide - 1),
              c \in (bc * BoxSide)..(bc * BoxSide + BoxSide - 1)} :
     br \in 0..(BoxSide - 1), bc \in 0..(BoxSide - 1)}
Units == RowUnits \cup ColUnits \cup BoxUnits

At(b, p) == b[p[1]][p[2]]

NoDuplicates(b) ==
  \A u \in Units : \A p \in u, q \in u : p # q /\ At(b, p) # 0 => At(b, p) # At(b, q)

IsComplete(b) == \A r \in Idx, c \in Idx : b[r][c] \in Values

(* every row, column and box a permutation of 1..N *)
IsSolved(b) ==
  \A u \in Units : \A v \in Values : Cardinality({p \in u : At(b, p) = v}) = 1

Empties(b) == {p \in Idx \X Idx : At(b, p) = 0}

(* b2 keeps every value b1 holds *)
Extends(b2, b1) == \A p \in Idx \X Idx : At(b1, p) # 0 => At(b2, p) = At(b1, p)

(* where generate_puzzle is between its call and its return *)
RemovalPcs == {"remove", "count", "decide", "generated"}

(* where play() holds a generated puzzle *)
PlayPcs == {"loop", "won", "quit"}

(* C9: from the empty board _fill_board terminates and returns true, true  *)
(* exactly when the board it leaves is fully populated; that board is      *)
(* solved; the solution generate_board stores is another list with the     *)
(* same cells, and it stays solved while generate_puzzle clears cells of   *)
(* the board and during the play that follows.                             *)
FillSolvesAndSolutionStays ==
  /\ pc = "generate_board" =>
        LET f == fill_board(heap, board, rng)
        IN /\ heap[board] = EmptyBoard
           /\ f.done
           /\ ~ f.raised
           /\ f.ok
           /\ f.ok <=> IsComplete(f.heap[board])
           /\ IsSolved(f.heap[board])
  /\ pc = "setup" =>
        /\ filled
        /\ IsSolved(heap[board])
        /\ solution # board
        /\ heap[solution] = heap[board]
  /\ pc \in RemovalPcs \cup PlayPcs => IsSolved(heap[solution])

(* the difficulty table *)
TargetRemoved(d) ==
  CASE d = "easy" -> 40 [] d = "medium" -> 50 [] d = "hard" -> 60 [] OTHER -> 40

(* C8: the target is 40, 50, 60 or 40 by difficulty; the cells cleared are *)
(* the removals kept, never more than the target; the pass tries no cell   *)
(* once the target is reached, tries each coordinate of the shuffled list  *)
(* at most once, and returns short of the target only with the list        *)
(* exhausted.                                                              *)
RemovalBounded ==
  [][ /\ pc' \in RemovalPcs =>
           /\ squares_to_remove' = TargetRemoved(difficulty')
           /\ removed_count' <= squares_to_remove'
           /\ Len(cells') = size * size
           /\ \A i \in 1..Len(cells'), j \in 1..Len(cells') : i # j => cells'[i] # cells'[j]
           /\ pc' \in {"count", "decide"} => removed_count' < squares_to_remove'
           /\ pc' \in {"remove", "generated"} =>
                 Cardinality(Empties(heap'[board'])) = removed_count'
           /\ pc' = "generated" /\ removed_count' < squares_to_remove' => pos' = Len(cells')
      /\ pc \in RemovalPcs /\ pc' \in RemovalPcs => pos' \in {pos, pos + 1}
      /\ pc = "remove" /\ removed_count = squares_to_remove => pc' = "generated"
    ]_vars

(* a pass that ran out of coordinates short of its target *)
RanOutShort ==
  /\ pc = "generated"
  /\ removed_count < squares_to_remove
  /\ pos = Len(cells)

(* C1: the givens generate_puzzle leaves have one completion:              *)
(* _count_solutions on them returns 1, and solve on a copy of them returns *)
(* true with the copy equal to the stored solution.                        *)
PuzzleHasUniqueCompletion ==
  pc = "generated" =>
    LET c == count_solutions(heap, original_puzzle, Live)
        cp == CopyBoard(heap, original_puzzle)
        s == solve(cp.heap, cp.ref)
    IN /\ c.done /\ ~ c.raised /\ c.count = 1
       /\ s.done /\ ~ s.raised /\ s.ok
       /\ s.heap[cp.ref] = heap[solution]
       /\ Extends(heap[solution], heap[original_puzzle])

(* a hard puzzle, its removals at times refused, has been generated *)
HardPuzzleGenerated ==
  /\ pc = "generated"
  /\ difficulty = "hard"
  /\ pos > removed_count
  /\ Cardinality(Empties(heap[original_puzzle])) > 50

(* every move on a locked cell, whatever the value, leaves the heap as it is *)
LockedMovesRejected ==
  \A p \in Idx \X Idx : At(heap[original_puzzle], p) # 0 =>
    \A v \in Values : MoveBoard(heap, Typed(p[1] + 1), Typed(p[2] + 1), Typed(v)) = heap

(* C5: the givens agree with the solution; from the return of              *)
(* generate_puzzle to the next new game the cells that original_puzzle     *)
(* holds keep their value in the board, a move on such a cell changes      *)
(* nothing, and original_puzzle, a list of its own, is changed by no move. *)
(* (The moves on locked cells are tried in each state of the loop as it is *)
(* entered, that is by each step that arrives there with a change.)        *)
LockedCellsKept ==
  [][ /\ pc' \in {"generated"} \cup PlayPcs =>
           /\ Extends(heap'[solution'], heap'[original_puzzle'])
           /\ Extends(heap'[board'], heap'[original_puzzle'])
           /\ original_puzzle' \notin {board', solution', NoRef}
      /\ pc' = "loop" /\ (pc # "loop" \/ heap' # heap) => LockedMovesRejected'
      /\ pc \in {"generated", "loop"} /\ pc' \in PlayPcs =>
           heap'[original_puzzle'] = heap[original_puzzle]
      /\ pc = "loop" /\ pc' \in PlayPcs =>
           \A p \in Idx \X Idx : At(heap[original_puzzle], p) # 0 =>
              At(heap'[board'], p) = At(heap[board], p)
    ]_vars

(* the player has entered values and the givens are where they were *)
MovesMadeGivensKept ==
  /\ pc = "loop"
  /\ Cardinality(Empties(heap[original_puzzle]) \ Empties(heap[board])) >= 2
  /\ Extends(heap[board], heap[original_puzzle])
  /\ \E p \in Idx \X Idx : At(heap[original_puzzle], p) # 0

(* C6: _count_solutions leaves self.board as it found it, whatever it      *)
(* returns; while generate_puzzle removes cells the board changes only at  *)
(* the candidate cell, cleared when tried and put back when refused.       *)
(* Each call returns: its search ends within the steps a search is given.  *)
CountLeavesBoard ==
  /\ [](pc = "count" => LET c == count_solutions(heap, board, Live)
                        IN c.done /\ ~ c.raised)
  /\ [][
      /\ pc = "count" => heap'[board'] = heap[board] /\ board' = board
      /\ pc \in {"setup", "remove", "count", "decide"} =>
           \A p \in Idx \X Idx : At(heap'[board'], p) # At(heap[board], p) =>
              /\ pos' >= 1
              /\ p = cells'[pos']
              /\ \/ pc = "remove" /\ At(heap'[board'], p) = 0
                 \/ pc = "decide" /\ solutions # 1
                                   /\ At(heap'[board'], p) = At(heap[solution], p)
    ]_vars

(* a count that left its search early, with the board as the generator had it *)
CountedSeveral ==
  /\ pc = "decide"
  /\ solutions > 1
  /\ At(heap[board], cells[pos]) = 0
  /\ Cardinality(Empties(heap[board])) = removed_count + 1

(* C10: in play the board holds no value twice in a row, column or box; a  *)
(* board without empty cell is the solution; the game has ended exactly    *)
(* when the board is complete.                                             *)
PlayKeepsBoardValid ==
  pc \in PlayPcs =>
    /\ NoDuplicates(heap[board])
    /\ IsComplete(heap[board]) => heap[board] = heap[solution]
    /\ IsComplete(heap[board]) <=> pc = "won"

(* the player has completed the board *)
GameWon ==
  /\ pc = "won"
  /\ IsComplete(heap[board])
  /\ heap[board] = heap[solution]
  /\ heap[board] # heap[original_puzzle]

(***************************************************************************)
(* The engine called from outside the game: solve and _count_solutions on  *)
(* a Sudoku object whose board the caller has set, is_valid on a board and *)
(* a cell the caller chooses.                                              *)
(***************************************************************************)

(* a list of rows as a board *)
Grid(rows) ==
  [r \in 0..(Len(rows) - 1) |-> [c \in 0..(Len(rows) - 1) |-> rows[r + 1][c + 1]]]

(* a solved 9 by 9 grid *)
Base ==
  Grid(<< <<1, 2, 3, 4, 5, 6, 7, 8, 9>>,
          <<4, 5, 6, 7, 8, 9, 3, 1, 2>>,
          <<7, 8, 9, 2, 3, 1, 5, 6, 4>>,
          <<2, 3, 4, 5, 6, 7, 8, 9, 1>>,
          <<5, 6, 7, 9, 1, 8, 2, 4, 3>>,
          <<8, 9, 1, 3, 2, 4, 6, 5, 7>>,
          <<6, 7, 2, 1, 4, 5, 9, 3, 8>>,
          <<3, 4, 5, 8, 9, 2, 1, 7, 6>>,
          <<9, 1, 8, 6, 7, 3, 4, 2, 5>> >>)

(* b with the cells of S emptied *)
Cleared(b, S) == [r \in Idx |-> [c \in Idx |-> IF <<r, c>> \in S THEN 0 ELSE b[r][c]]]

(* b with the cells outside S emptied *)
Kept(b, S) == [r \in Idx |-> [c \in Idx |-> IF <<r, c>> \in S THEN b[r][c] ELSE 0]]

(* the cells the caller may have emptied, and how many of them at most *)
ClearCells == {<<0, 0>>, <<2, 6>>, <<2, 7>>, <<2, 8>>, <<5, 6>>, <<5, 7>>, <<8, 6>>, <<8, 8>>}
MaxCleared == 7

(* the cell into which the caller may have written a value it did not check *)
WriteCell == <<2, 6>>

InputBoards ==
  {IF w = 0 THEN b ELSE [b EXCEPT ![WriteCell[1]][WriteCell[2]] = w] :
     b \in {Cleared(Base, S) : S \in {T \in SUBSET ClearCells : Cardinality(T) <= MaxCleared}},
     w \in 0..size}

InitSearch ==
  /\ size = DefaultSize
  /\ heap \in {[NoHeap EXCEPT ![1] = b] : b \in InputBoards}
  /\ board = 1 /\ solution = NoRef /\ original_puzzle = NoRef
  /\ rng = 0
  /\ pc = "ready" /\ games = 0
  /\ NoLocals
  /\ call = NoCall

(* game.solve() *)
CallSolve ==
  /\ pc = "ready"
  /\ LET s == solve(heap, board)
     IN /\ s.done
        /\ heap' = s.heap
        /\ call' = [op |-> "solve", entry |-> heap[board], ret |-> s.ok,
                    raised |-> s.raised]
  /\ pc' = "returned"
  /\ UNCHANGED <<size, board, solution, original_puzzle, rng, games, gen_locals>>

(* game._count_solutions() *)
CallCountSolutions ==
  /\ pc = "ready"
  /\ LET c == count_solutions(heap, board, Live)
     IN /\ c.done
        /\ heap' = c.heap
        /\ call' = [op |-> "count", entry |-> heap[board], ret |-> c.count,
                    raised |-> c.raised]
  /\ pc' = "returned"
  /\ UNCHANGED <<size, board, solution, original_puzzle, rng, games, gen_locals>>

NextSearch == CallSolve \/ CallCountSolutions

SpecSearch == InitSearch /\ [][NextSearch]_vars

(* the cells that may hold a value when is_valid is asked, and how many *)
KeepCells == {<<0, 0>>, <<1, 4>>, <<4, 4>>, <<4, 7>>, <<8, 4>>, <<7, 1>>}
MaxKept == 2

ProbeBoards ==
  {Kept(Base, S) : S \in {T \in SUBSET KeepCells : Cardinality(T) <= MaxKept}}

InitValid ==
  /\ size = DefaultSize
  /\ heap \in {[NoHeap EXCEPT ![1] = b] : b \in ProbeBoards}
  /\ board = 1 /\ solution = NoRef /\ original_puzzle = NoRef
  /\ rng = 0
  /\ pc = "ready" /\ games = 0
  /\ NoLocals
  /\ call = NoCall

(* game.is_valid(game.board, row, col, value) *)
CallIsValid(row, col, value) ==
  /\ pc = "ready"
  /\ call' = [op |-> "is_valid", row |-> row, col |-> col, value |-> value,
              ret |-> is_valid(heap[board], row, col, value),
              raised |-> is_valid_raises(heap[board], row, col, value)]
  /\ pc' = "returned"
  /\ UNCHANGED <<size, heap, board, solution, original_puzzle, rng, games, gen_locals>>

NextValid == \E row \in Idx, col \in Idx, value \in Values : CallIsValid(row, col, value)

SpecValid == InitValid /\ [][NextValid]_vars

(***************************************************************************)
(* Sudoku(size) for a size other than the default, used through is_valid,  *)
(* solve and _count_solutions on boards the caller has set.                *)
(***************************************************************************)

(* a solved 4 by 4 grid *)
Base4 ==
  Grid(<< <<1, 2, 3, 4>>,
          <<3, 4, 1, 2>>,
          <<2, 1, 4, 3>>,
          <<4, 3, 2, 1>> >>)

(* the cells of the solved grid the caller may have emptied *)
ClearCells4 == {<<0, 0>>, <<1, 1>>, <<0, 3>>, <<3, 0>>, <<3, 3>>}

(* the solved grid with at most MaxKept cells kept, or with some of        *)
(* ClearCells4 emptied                                                     *)
SmallBoards ==
  {Kept(Base4, S) : S \in {T \in SUBSET (Idx \X Idx) : Cardinality(T) <= MaxKept}}
    \cup {Cleared(Base4, S) : S \in SUBSET ClearCells4}

InitSmall ==
  /\ size \in Sizes \ {DefaultSize}
  /\ heap \in {[NoHeap EXCEPT ![1] = b] : b \in SmallBoards}
  /\ board = 1 /\ solution = NoRef /\ original_puzzle = NoRef
  /\ rng = 0
  /\ pc = "ready" /\ games = 0
  /\ NoLocals
  /\ call = NoCall

NextSmall == NextValid \/ NextSearch

SpecSmall == InitSmall /\ [][NextSmall]_vars

(* the value stands in another cell of some unit of the cell *)
Conflict(b, p, v) ==
  \E u \in Units : p \in u /\ \E q \in u \ {p} : At(b, q) = v

(* C4: is_valid is false exactly when the value stands in another cell of  *)
(* the row, the column or the b-by-b box of the cell; the cell's own value *)
(* does not count.                                                         *)
IsValidIffNoConflict ==
  call.op = "is_valid" =>
    /\ ~ call.raised
    /\ call.ret <=> ~ Conflict(heap[board], <<call.row, call.col>>, call.value)

(* the complete boards without duplicate that keep the values of b *)
RECURSIVE Assign(_, _)
Assign(b, todo) ==
  IF todo = {} THEN (IF IsSolved(b) THEN {b} ELSE {})
  ELSE LET p == CHOOSE q \in todo : TRUE
       IN UNION {Assign([b EXCEPT ![p[1]][p[2]] = v], todo \ {p}) :
                   v \in {w \in Values : ~ Conflict(b, p, w)}}

Completions(b) == Assign(b, Empties(b))

(* C7: on a board whose values hold no duplicate, _count_solutions returns *)
(* 0, 1 or more than 1 as the board has no, one or several completions,    *)
(* and never more than the board has.                                      *)
CountClassifies ==
  call.op = "count" /\ NoDuplicates(call.entry) =>
    LET n == Cardinality(Completions(call.entry))
    IN /\ ~ call.raised
       /\ call.ret = 0 <=> n = 0
       /\ call.ret = 1 <=> n = 1
       /\ call.ret > 1 <=> n >= 2
       /\ call.ret <= n

(* C2: whatever the board, if solve returns true the board is complete and *)
(* every row, column and box is a permutation of 1..N.                     *)
SolveTrueMeansSolved ==
  call.op = "solve" /\ ~ call.raised /\ call.ret => IsSolved(heap[board])

(* C3: on a board without completion solve returns false and leaves every  *)
(* cell as it was at the call.                                             *)
SolveFailsAndRestores ==
  call.op = "solve" /\ Completions(call.entry) = {} =>
    ~ call.raised /\ ~ call.ret /\ heap[board] = call.entry

=============================================================================
